---- MODULE Spec2Model ----
(***************************************************************************)
(* Model of wgpu's util module (wgpu/src/util/mod.rs):                     *)
(*   - make_spirv_raw : reinterpret a byte slice as SPIR-V words           *)
(*   - DownloadBuffer::read_buffer : asynchronous buffer readback          *)
(*   - align_to : round a value up to a multiple of an alignment           *)
(* Three specifications share one set of variables: Spec (readback),       *)
(* SpecSpirv (make_spirv_raw) and SpecAlign (align_to).                    *)
(***************************************************************************)
EXTENDS Integers, Sequences, FiniteSets, TLC

VARIABLES
    \* ---- make_spirv_raw ----
    data,          \* the input byte slice (sequence of bytes)
    addr,          \* data.as_ptr() modulo align_of::<u32>()
    endian,        \* byte order of the target ("little" / "big")
    spirvPc,       \* "ready" before the call, "done" after
    spirvResult,   \* outcome of the call
    \* ---- align_to ----
    value,         \* argument `value`
    alignment,     \* argument `alignment`
    build,         \* "debug" (overflow checks on) / "release" (wrapping)
    alignPc,       \* "ready" / "done"
    alignResult,   \* outcome of the call
    \* ---- DownloadBuffer::read_buffer, one entry per request ----
    status,        \* "idle" | "pending" | "ok" | "err" | "dropped"
    slice,         \* the BufferSlice argument
    size,          \* the local `size` (captured by the closure)
    staging,       \* descriptor the staging buffer was created with
    copyCmd,       \* the recorded copy_buffer_to_buffer command
    owners,        \* holders of a strong reference to Arc<Buffer> `download`
    bufferAlive,   \* the staging Buffer exists (created and not yet dropped)
    mapState,      \* "none" | "pending" | "mapped" | "failed"
    mapResult,     \* what the context handed to the map_async closure
    mappedRange,   \* the BufferMappedRange (NoRange when there is none)
    delivered,     \* sequence of arguments the user callback was invoked with
    ctxCalls,      \* context calls made for this request, in order
    viewLen        \* length of the live byte view obtained by deref (-1: none)

spirvVars == <<data, addr, endian, spirvPc, spirvResult>>
alignVars == <<value, alignment, build, alignPc, alignResult>>
readVars  == <<status, slice, size, staging, copyCmd, owners, bufferAlive,
               mapState, mapResult, mappedRange, delivered, ctxCalls, viewLen>>
vars == <<spirvVars, alignVars, readVars>>

(***************************************************************************)
(* Bounds                                                                  *)
(***************************************************************************)
MaxDataLen == 9
MaxRequests == 2
MaxTotalSize == 2
MaxSmallValue == 256
NearMax == 32
MaxAlignment == 16

(***************************************************************************)
(* make_spirv_raw                                                          *)
(***************************************************************************)
MAGIC_NUMBER == 119734787        \* 0x0723_0203
WordSize == 4                    \* size_of::<u32>()
WordAlign == 4                   \* align_of::<u32>()

\* Bytes the inputs are drawn from.  The first word is built from the four
\* bytes of the magic number in every order; the bytes after it, which the
\* function copies or views but never compares, come from a smaller set.
HeadValues == {2, 3, 7, 35}
TailValues == {0, 127}
Endians == {"little", "big"}

ByteBuffers ==
    UNION {IF n <= WordSize
           THEN [1..n -> HeadValues]
           ELSE {h \o t : h \in [1..WordSize -> HeadValues],
                          t \in [1..(n - WordSize) -> TailValues]}
           : n \in 0..MaxDataLen}

\* ptr.align_offset(a): bytes to advance to reach the next multiple of a.
AlignOffset(p, a) == (a - (p % a)) % a

\* The u32 read from four consecutive bytes, in the target's byte order.
WordOf(b0, b1, b2, b3, e) ==
    IF e = "little"
    THEN b0 + 256 * b1 + 65536 * b2 + 16777216 * b3
    ELSE b3 + 256 * b2 + 65536 * b1 + 16777216 * b0

WordsOfBytes(bytes, e) ==
    [i \in 1..(Len(bytes) \div WordSize) |->
        WordOf(bytes[4 * i - 3], bytes[4 * i - 2], bytes[4 * i - 1], bytes[4 * i], e)]

\* data.align_to::<u32>() on an aligned pointer: the middle slice views the
\* same bytes as whole words (pre is empty, post holds the len % 4 tail).
BorrowedWords(bytes, e) == WordsOfBytes(bytes, e)

\* Faulty variant of CopiedWords: the copy stops one byte short.
CopiedWordsShort(bytes, e) ==
    LET n == Len(bytes) \div WordSize
        dst == [i \in 1..(n * WordSize) |-> IF i < Len(bytes) THEN bytes[i] ELSE 0]
    IN  WordsOfBytes(dst, e)

\* vec![0u32; len / 4], then copy_nonoverlapping of len bytes into its storage.
CopiedWords(bytes, e) ==
    LET n == Len(bytes) \div WordSize
        dst == [i \in 1..(n * WordSize) |-> IF i <= Len(bytes) THEN bytes[i] ELSE 0]
    IN  WordsOfBytes(dst, e)

\* Faulty variant of SizeIsMultiple: the length is checked against 2.
SizeIsMultipleOfTwo(bytes) == Len(bytes) % 2 = 0

\* First assert_eq!: data.len() % size_of::<u32>() == 0.
SizeIsMultiple(bytes) == Len(bytes) % WordSize = 0

\* The magic number with its bytes in reverse order (0x0302_2307).
MagicSwapped == WordOf(7, 35, 2, 3, "little")

\* Faulty variant of MagicOk: the constant has the wrong byte order.
MagicOkSwapped(words) == words[1] = MagicSwapped

\* Second assert_eq!: words[0] == MAGIC_NUMBER (words is known non-empty here).
MagicOk(words) == words[1] = MAGIC_NUMBER

\* Outcomes.  The panics of the function are told apart by their place:
\*   SizeNotMultipleOf4 : first assert_eq! ("data size is not a multiple of 4")
\*   IndexOutOfBounds   : the bounds check of words[0] on an empty sequence
\*   BadMagicNumber     : second assert_eq! ("wrong magic word")
\* path is the branch that built the words ("none" when none was built).
SpirvOutcome(k, p, w) == [kind |-> k, path |-> p, words |-> w]

make_spirv_raw(bytes, p, e) ==
    IF ~SizeIsMultiple(bytes)
    THEN SpirvOutcome("SizeNotMultipleOf4", "none", <<>>)
    ELSE LET aligned == AlignOffset(p, WordAlign) = 0
             path    == IF aligned THEN "borrowed" ELSE "owned"
             words   == IF aligned THEN BorrowedWords(bytes, e)
                                   ELSE CopiedWords(bytes, e)
         IN  IF Len(words) = 0
             THEN SpirvOutcome("IndexOutOfBounds", path, words)
             ELSE IF ~MagicOk(words)
                  THEN SpirvOutcome("BadMagicNumber", path, words)
                  ELSE SpirvOutcome("Ok", path, words)

NoOutcome == SpirvOutcome("none", "none", <<>>)

(***************************************************************************)
(* align_to                                                                *)
(***************************************************************************)
\* Width of the integer type T the generic function is instantiated at (u16).
IntBits == 16
IntModulus == 2 ^ IntBits
IntMax == IntModulus - 1

Builds == {"debug", "release"}

AlignOutcome(k, v) == [kind |-> k, value |-> v]
NoAlignOutcome == AlignOutcome("none", 0)

\* a + b in T: panics in a debug build on overflow, wraps in a release build.
CheckedAdd(a, b, bld) ==
    IF a + b > IntMax
    THEN IF bld = "debug" THEN AlignOutcome("Overflow", 0)
                          ELSE AlignOutcome("Ok", (a + b) % IntModulus)
    ELSE AlignOutcome("Ok", a + b)

\* a - b in T: panics in a debug build on underflow, wraps in a release build.
CheckedSub(a, b, bld) ==
    IF a - b < 0
    THEN IF bld = "debug" THEN AlignOutcome("Overflow", 0)
                          ELSE AlignOutcome("Ok", (a - b) % IntModulus)
    ELSE AlignOutcome("Ok", a - b)

align_to(v, a, bld) ==
    IF a = 0
    THEN AlignOutcome("RemainderByZero", 0)     \* value % 0 panics in every build
    ELSE LET remainder == v % a
         IN  IF remainder = 0
             THEN AlignOutcome("Ok", v)
             ELSE LET sum == CheckedAdd(v, a, bld)
                  IN  IF sum.kind # "Ok" THEN sum
                      ELSE CheckedSub(sum.value, remainder, bld)

AlignValues == (0..MaxSmallValue) \cup ((IntMax - NearMax)..IntMax)
AlignAlignments == 0..MaxAlignment

(***************************************************************************)
(* DownloadBuffer::read_buffer                                             *)
(***************************************************************************)
Requests == 1..MaxRequests

\* BufferSlice { buffer, offset, size }.  size is an Option<BufferSize>
\* (a non-zero u64): None is written 0.  The slice lies inside its buffer.
None == 0
BufferSlices ==
    {[total_size |-> t, offset |-> o, size |-> s] :
        t \in 1..MaxTotalSize, o \in 0..MaxTotalSize, s \in 0..MaxTotalSize}
ValidSlices ==
    {s \in BufferSlices : s.offset <= s.total_size
                          /\ s.offset + s.size <= s.total_size}

\* The errors a mapping can complete with.
MapErrors == {"DeviceLost", "BufferDestroyed"}

NoSlice == [total_size |-> 0, offset |-> 0, size |-> None]
NoStaging == [size |-> -1, usage |-> {}, mapped_at_creation |-> FALSE]
NoCopy == [src_offset |-> -1, dst_offset |-> -1, size |-> -1]
NoRange == [start |-> -1, end |-> -1]

\* Faulty variant of ResolveSize: the offset is not subtracted.
ResolveSizeWholeBuffer(s) ==
    IF s.size # None THEN s.size ELSE s.total_size

\* let size = match buffer.size { Some(size) => size.into(),
\*                                None => total_size - buffer.offset };
ResolveSize(s) ==
    IF s.size # None THEN s.size ELSE s.total_size - s.offset

\* device.create_buffer(&BufferDescriptor { size, usage, mapped_at_creation, .. })
StagingDescriptor(sz) ==
    [size |-> sz, usage |-> {"COPY_DST", "MAP_READ"}, mapped_at_creation |-> FALSE]

\* encoder.copy_buffer_to_buffer(buffer.buffer, buffer.offset, &download, 0, size)
CopyCommand(s, sz) == [src_offset |-> s.offset, dst_offset |-> 0, size |-> sz]

\* Faulty variant of OwnersAfterReadBuffer: the clone is leaked.
OwnersWithTemporary == {"closure", "temporary"}

\* Strong references left when read_buffer returns: `download` has moved into
\* the closure; the clone made for .slice(..).map_async is a temporary that is
\* dropped at the end of its statement.
OwnersAfterReadBuffer == ({"closure", "temporary"}) \ {"temporary"}

\* Context calls read_buffer makes, in program order.
ReadBufferCalls ==
    <<"create_buffer", "create_command_encoder", "copy_buffer_to_buffer",
      "finish", "submit", "buffer_map_async">>

\* Buffer::drop, run when the last strong reference goes away.
BufferDropCalls(os) == IF os = {} THEN <<"buffer_drop">> ELSE <<>>

Ok(h) == [tag |-> "Ok", err |-> "none", range |-> h]
Err(e) == [tag |-> "Err", err |-> e, range |-> NoRange]

\* Faulty variants of CallbackErr: the error is swallowed; another error is
\* reported in its place.
CallbackErrSwallowed(d, e) == d
CallbackErrReplaced(d, e) == Append(d, Err("DeviceLost"))

\* callback(Err(e))
CallbackErr(d, e) == Append(d, Err(e))

\* callback(Ok(Self(download, mapped_range)))
CallbackOk(d, rng) == Append(d, Ok(rng))

\* buffer_get_mapped_range(.., 0..size)
GetMappedRange(sz) == [start |-> 0, end |-> sz]

\* BufferMappedRange::slice(): the bytes of the range.
RangeSliceLen(rng) == rng.end - rng.start

ReadBuffer(r, s) ==
    /\ status[r] = "idle"
    /\ LET sz == ResolveSize(s)
       IN  /\ size' = [size EXCEPT ![r] = sz]
           /\ staging' = [staging EXCEPT ![r] = StagingDescriptor(sz)]
           /\ copyCmd' = [copyCmd EXCEPT ![r] = CopyCommand(s, sz)]
    /\ slice' = [slice EXCEPT ![r] = s]
    /\ bufferAlive' = [bufferAlive EXCEPT ![r] = TRUE]
    /\ owners' = [owners EXCEPT ![r] = OwnersAfterReadBuffer]
    /\ mapState' = [mapState EXCEPT ![r] = "pending"]
    /\ ctxCalls' = [ctxCalls EXCEPT ![r] = ReadBufferCalls]
    /\ status' = [status EXCEPT ![r] = "pending"]
    /\ UNCHANGED <<mapResult, mappedRange, delivered, viewLen>>

\* The map_async closure run with Err(e): callback(Err(e)); return.  The
\* closure's captures (download) are dropped when it returns.
MapFails(r, e) ==
    /\ status[r] = "pending"
    /\ mapState' = [mapState EXCEPT ![r] = "failed"]
    /\ mapResult' = [mapResult EXCEPT ![r] = e]
    /\ delivered' = [delivered EXCEPT ![r] = CallbackErr(@, e)]
    /\ LET os == owners[r] \ {"closure"}
       IN  /\ owners' = [owners EXCEPT ![r] = os]
           /\ bufferAlive' = [bufferAlive EXCEPT ![r] = os # {}]
           /\ ctxCalls' = [ctxCalls EXCEPT ![r] = @ \o BufferDropCalls(os)]
    /\ status' = [status EXCEPT ![r] = "err"]
    /\ UNCHANGED <<slice, size, staging, copyCmd, mappedRange, viewLen>>

\* The map_async closure run with Ok(()): the mapped range over 0..size is
\* taken and moved, with download, into the DownloadBuffer handed to callback.
MapSucceeds(r) ==
    /\ status[r] = "pending"
    /\ mapState' = [mapState EXCEPT ![r] = "mapped"]
    /\ mapResult' = [mapResult EXCEPT ![r] = "Ok"]
    /\ mappedRange' = [mappedRange EXCEPT ![r] = GetMappedRange(size[r])]
    /\ ctxCalls' = [ctxCalls EXCEPT ![r] = Append(@, "buffer_get_mapped_range")]
    /\ delivered' = [delivered EXCEPT ![r] = CallbackOk(@, GetMappedRange(size[r]))]
    /\ owners' = [owners EXCEPT ![r] = (@ \ {"closure"}) \cup {"handle"}]
    /\ status' = [status EXCEPT ![r] = "ok"]
    /\ UNCHANGED <<slice, size, staging, copyCmd, bufferAlive, viewLen>>

\* Deref for DownloadBuffer: self.1.slice()
Deref(r) ==
    /\ status[r] = "ok"
    /\ viewLen' = [viewLen EXCEPT ![r] = RangeSliceLen(mappedRange[r])]
    /\ UNCHANGED <<status, slice, size, staging, copyCmd, owners, bufferAlive,
                   mapState, mapResult, mappedRange, delivered, ctxCalls>>

\* The caller drops the DownloadBuffer.  The struct has no Drop impl, so its
\* fields are dropped in declaration order: field 0, the Arc<Buffer>, then
\* field 1, the Box<dyn BufferMappedRange>.  No unmap is called.  A byte view
\* borrowed from the handle ends with it.
DropDownloadBuffer(r) ==
    /\ status[r] = "ok"
    /\ LET os == owners[r] \ {"handle"}
       IN  /\ owners' = [owners EXCEPT ![r] = os]
           /\ bufferAlive' = [bufferAlive EXCEPT ![r] = os # {}]
           /\ ctxCalls' = [ctxCalls EXCEPT ![r] =
                              (@ \o BufferDropCalls(os)) \o <<"mapped_range_drop">>]
    /\ mappedRange' = [mappedRange EXCEPT ![r] = NoRange]
    /\ viewLen' = [viewLen EXCEPT ![r] = -1]
    /\ status' = [status EXCEPT ![r] = "dropped"]
    /\ UNCHANGED <<slice, size, staging, copyCmd, mapState, mapResult, delivered>>

(***************************************************************************)
(* Specifications                                                          *)
(***************************************************************************)
SpirvIdle ==
    /\ data = <<>> /\ addr = 0 /\ endian = "little"
    /\ spirvPc = "off" /\ spirvResult = NoOutcome

AlignIdle ==
    /\ value = 0 /\ alignment = 1 /\ build = "debug"
    /\ alignPc = "off" /\ alignResult = NoAlignOutcome

ReadIdle ==
    /\ status = [r \in Requests |-> "idle"]
    /\ slice = [r \in Requests |-> NoSlice]
    /\ size = [r \in Requests |-> -1]
    /\ staging = [r \in Requests |-> NoStaging]
    /\ copyCmd = [r \in Requests |-> NoCopy]
    /\ owners = [r \in Requests |-> {}]
    /\ bufferAlive = [r \in Requests |-> FALSE]
    /\ mapState = [r \in Requests |-> "none"]
    /\ mapResult = [r \in Requests |-> "none"]
    /\ mappedRange = [r \in Requests |-> NoRange]
    /\ delivered = [r \in Requests |-> <<>>]
    /\ ctxCalls = [r \in Requests |-> <<>>]
    /\ viewLen = [r \in Requests |-> -1]

\* ---- readback ----
Init == SpirvIdle /\ AlignIdle /\ ReadIdle

Next ==
    \/ \E r \in Requests, s \in ValidSlices :
          ReadBuffer(r, s) /\ UNCHANGED <<spirvVars, alignVars>>
    \/ \E r \in Requests :
          MapSucceeds(r) /\ UNCHANGED <<spirvVars, alignVars>>
    \/ \E r \in Requests, e \in MapErrors :
          MapFails(r, e) /\ UNCHANGED <<spirvVars, alignVars>>
    \/ \E r \in Requests :
          Deref(r) /\ UNCHANGED <<spirvVars, alignVars>>
    \/ \E r \in Requests :
          DropDownloadBuffer(r) /\ UNCHANGED <<spirvVars, alignVars>>

Spec == Init /\ [][Next]_vars

\* ---- make_spirv_raw ----
InitSpirv ==
    /\ data \in ByteBuffers
    /\ addr \in 0..(WordAlign - 1)
    /\ endian \in Endians
    /\ spirvPc = "ready"
    /\ spirvResult = NoOutcome
    /\ AlignIdle /\ ReadIdle

CallMakeSpirvRaw ==
    /\ spirvPc = "ready"
    /\ spirvResult' = make_spirv_raw(data, addr, endian)
    /\ spirvPc' = "done"
    /\ UNCHANGED <<data, addr, endian, alignVars, readVars>>

NextSpirv == CallMakeSpirvRaw

SpecSpirv == InitSpirv /\ [][NextSpirv]_vars

\* ---- align_to ----
InitAlign ==
    /\ value \in AlignValues
    /\ alignment \in AlignAlignments
    /\ build \in Builds
    /\ alignPc = "ready"
    /\ alignResult = NoAlignOutcome
    /\ SpirvIdle /\ ReadIdle

CallAlignTo ==
    /\ alignPc = "ready"
    /\ alignResult' = align_to(value, alignment, build)
    /\ alignPc' = "done"
    /\ UNCHANGED <<value, alignment, build, spirvVars, readVars>>

NextAlign == CallAlignTo

SpecAlign == InitAlign /\ [][NextAlign]_vars

(***************************************************************************)
(* Properties                                                              *)
(***************************************************************************)
Started(r) == status[r] # "idle"
Completed(r) == mapResult[r] # "none"
CallsOf(r) == {ctxCalls[r][i] : i \in 1..Len(ctxCalls[r])}
PosOf(r, c) == CHOOSE i \in 1..Len(ctxCalls[r]) : ctxCalls[r][i] = c

\* C1: the caller's continuation is invoked exactly once per readback
\* request: not at all before the mapping completes, and exactly once from
\* then on, on success and on failure alike, whatever the order in which the
\* in-flight requests complete.
C1_CallbackExactlyOnce ==
    \A r \in Requests :
        /\ Len(delivered[r]) <= 1
        /\ Completed(r) => Len(delivered[r]) = 1
        /\ ~Completed(r) => Len(delivered[r]) = 0
        /\ status[r] = "pending" => "closure" \in owners[r]

C1_Witness ==
    /\ status[1] = "err" /\ Len(delivered[1]) = 1 /\ delivered[1][1].tag = "Err"
    /\ status[2] = "dropped" /\ Len(delivered[2]) = 1 /\ delivered[2][1].tag = "Ok"

\* C2: dropping a DownloadBuffer unmaps its staging buffer before the buffer
\* is released: a released staging buffer is not in the mapped state, and its
\* mapped range was dropped before the buffer was.
C2_UnmapBeforeRelease ==
    \A r \in Requests :
        (Started(r) /\ ~bufferAlive[r]) =>
            /\ mapState[r] # "mapped"
            /\ "buffer_get_mapped_range" \in CallsOf(r) =>
                  /\ "mapped_range_drop" \in CallsOf(r)
                  /\ PosOf(r, "mapped_range_drop") < PosOf(r, "buffer_drop")

\* C3: when the mapping fails, the same failure reaches the continuation, no
\* mapped range is requested or held, no DownloadBuffer is delivered, and the
\* staging buffer is released.
C3_FailureForwarded ==
    \A r \in Requests :
        mapResult[r] \in MapErrors =>
            /\ delivered[r] = <<Err(mapResult[r])>>
            /\ "buffer_get_mapped_range" \notin CallsOf(r)
            /\ mappedRange[r] = NoRange
            /\ owners[r] = {}
            /\ ~bufferAlive[r]
            /\ ctxCalls[r][Len(ctxCalls[r])] = "buffer_drop"
            /\ status[r] = "err"

C3_Witness ==
    \E r \in Requests :
        /\ mapResult[r] = "BufferDestroyed"
        /\ delivered[r] = <<Err("BufferDestroyed")>>
        /\ ~bufferAlive[r]

\* C4: the resolved size S is the explicit slice size when there is one and
\* the buffer's total size minus the slice offset otherwise; the staging
\* buffer is created with size S, the copy moves S bytes from the slice offset
\* to offset 0, and on success the delivered byte view has length S.
C4_SizeResolved ==
    \A r \in Requests :
        Started(r) =>
            LET S == IF slice[r].size # None THEN slice[r].size
                     ELSE slice[r].total_size - slice[r].offset
            IN  /\ staging[r].size = S
                /\ copyCmd[r] = [src_offset |-> slice[r].offset,
                                 dst_offset |-> 0, size |-> S]
                /\ mapResult[r] = "Ok" =>
                      /\ Len(delivered[r]) = 1
                      /\ delivered[r][1].tag = "Ok"
                      /\ RangeSliceLen(delivered[r][1].range) = S
                /\ status[r] = "ok" => RangeSliceLen(mappedRange[r]) = S
                /\ viewLen[r] # -1 => viewLen[r] = S

C4_Witness ==
    \E r \in Requests :
        /\ slice[r] = [total_size |-> 2, offset |-> 1, size |-> None]
        /\ status[r] = "ok"
        /\ viewLen[r] = 1

\* C5: for an empty byte buffer make_spirv_raw fails with TooShort, and does
\* not index past the end of the (empty) word sequence.
C5_EmptyIsTooShort ==
    (spirvPc = "done" /\ Len(data) = 0) =>
        /\ spirvResult.kind = "TooShort"
        /\ spirvResult.kind # "IndexOutOfBounds"

\* C6: a buffer whose length is not a multiple of 4 fails with
\* SizeNotMultipleOf4 whatever its contents and alignment, before any word is
\* built and before the magic number is compared.
C6_SizeCheckedFirst ==
    (spirvPc = "done" /\ Len(data) % 4 # 0) =>
        /\ spirvResult.kind = "SizeNotMultipleOf4"
        /\ spirvResult.path = "none"
        /\ spirvResult.words = <<>>

C6_Witness ==
    /\ spirvPc = "done" /\ Len(data) = 6 /\ addr = 0
    /\ spirvResult.kind = "SizeNotMultipleOf4"

\* C7: a buffer of 4k >= 4 bytes is accepted exactly when its first word is
\* 0x07230203 and is rejected with BadMagicNumber otherwise; an accepted
\* buffer yields len / 4 words.
C7_MagicDecides ==
    (spirvPc = "done" /\ Len(data) % 4 = 0 /\ Len(data) >= 4) =>
        LET first == WordOf(data[1], data[2], data[3], data[4], endian)
        IN  /\ spirvResult.kind \in {"Ok", "BadMagicNumber"}
            /\ spirvResult.kind = "Ok" <=> first = MAGIC_NUMBER
            /\ spirvResult.kind = "Ok" =>
                  Len(spirvResult.words) = Len(data) \div 4

C7_Witness ==
    /\ spirvPc = "done" /\ Len(data) = 8
    /\ spirvResult.kind = "Ok" /\ Len(spirvResult.words) = 2

\* C8: for a buffer whose length is a multiple of 4, the outcome and the word
\* values are those the other path (borrowed view for an aligned address,
\* owned copy for an unaligned one) gives for the same bytes.
C8_PathIndependent ==
    (spirvPc = "done" /\ Len(data) % 4 = 0) =>
        LET other == make_spirv_raw(data, IF addr = 0 THEN 1 ELSE 0, endian)
        IN  /\ other.path # spirvResult.path
            /\ other.kind = spirvResult.kind
            /\ other.words = spirvResult.words
            /\ Len(spirvResult.words) = Len(data) \div 4
            /\ \A i \in 1..Len(spirvResult.words) :
                  spirvResult.words[i] =
                      WordOf(data[4 * i - 3], data[4 * i - 2],
                             data[4 * i - 1], data[4 * i], endian)

C8_Witness ==
    /\ spirvPc = "done" /\ Len(data) = 8 /\ addr = 3
    /\ spirvResult.path = "owned" /\ spirvResult.kind = "Ok"
    /\ spirvResult.words[2] # 0

\* C9: for alignment > 0, align_to returns the smallest multiple of alignment
\* that is >= value (stated for the inputs whose answer fits the type), and
\* align_to(253, 16) = 256, align_to(256, 16) = 256, align_to(0, 16) = 0.
C9_SmallestMultiple ==
    (/\ alignPc = "done"
     /\ alignment > 0
     /\ value + ((alignment - (value % alignment)) % alignment) <= IntMax) =>
        /\ alignResult.kind = "Ok"
        /\ alignResult.value >= value
        /\ alignResult.value % alignment = 0
        /\ alignResult.value - value < alignment
        /\ (value = 253 /\ alignment = 16) => alignResult.value = 256
        /\ (value = 256 /\ alignment = 16) => alignResult.value = 256
        /\ (value = 0 /\ alignment = 16) => alignResult.value = 0

\* C10: once a request has completed its staging buffer has one owner at
\* most: the delivered DownloadBuffer after a success (neither the temporary
\* clone nor the closure holds it any more), nobody after a failure.
C10_SingleOwner ==
    \A r \in Requests :
        /\ status[r] = "ok" => (owners[r] = {"handle"} /\ bufferAlive[r])
        /\ status[r] = "err" => (owners[r] = {} /\ ~bufferAlive[r])
        /\ status[r] = "pending" => owners[r] = {"closure"}

C10_Witness ==
    /\ status[1] = "ok" /\ owners[1] = {"handle"}
    /\ status[2] = "err" /\ owners[2] = {}

====
